---- MODULE Spec2Model ----
(***************************************************************************)
(* Voice session orchestrator of sdeture/voicebot2.                        *)
(*                                                                         *)
(* Part 1: the silence detector of services/audio/silence-detector.service *)
(* Part 2: the recorder of services/audio/recorder.service                 *)
(* Part 3: the VoiceChatInterface component (handlers, effects, timers)    *)
(*                                                                         *)
(* Handlers are operators from a state record to a state record, so that a *)
(* handler that calls another handler is the composition of the two.  An   *)
(* action gathers the variables into the record (St), applies the handler  *)
(* and commits the result (Commit).                                        *)
(*                                                                         *)
(* Time is counted in sampling ticks of the detector (checkInterval).      *)
(* The detector's silence timers carry a due time; all other timers of the *)
(* component may fire at any moment while pending.                         *)
(*                                                                         *)
(* State updates of one handler are batched: the render that follows and   *)
(* the effects whose dependencies changed run with the handler (Render).   *)
(* A callback registered in a recorder, a detector or a timer keeps the    *)
(* values of the render that created it (Env).                             *)
(*                                                                         *)
(* SpecDetector drives one detector through its interface with arbitrary   *)
(* samples; Spec drives the component through its controls.                *)
(***************************************************************************)
EXTENDS Integers, Sequences, FiniteSets, Bags, TLC

VARIABLES
  now,                 \* clock, in sampling ticks
  detectors,           \* the silence detector instances created so far
  recorders,           \* the audio recorder instances created so far
  timers,              \* bag of pending setTimeout callbacks
  awaiting,            \* bag of suspended async continuations
  messages,            \* useState: the conversation history
  voiceState,          \* useState: idle, recording, processing, speaking, error
  errorMessage,        \* useState: string | null
  recorder,            \* useState: the recorder instance (0 is null)
  isRecording,         \* useState
  silenceDetected,     \* useState
  silenceDuration,     \* useState, in ticks
  recordingTimeoutRef, \* useRef: the ceiling timer handle
  silenceTimeoutRef,   \* useRef: the grace timer handle
  audioChunksRef,      \* useRef: chunks, each tagged with its recording
  silenceDetectorRef,  \* useRef: the detector instance (0 is null)
  apiKey,              \* prop
  browser,             \* which device interfaces the browser has
  nextId,              \* source of message ids
  recordings,          \* number of MediaRecorder.start() so far
  sdHist,              \* per detector: observations of its edges (ghost)
  audioDispatches,     \* recordings handed to processAudioAndGetResponse (ghost)
  commands,            \* number of commands the user has given (ghost)
  followed,            \* how far the session is followed (ghost)
  hook,                \* useAudioRecorder, useSilenceDetector: state and refs
  lastEvent            \* the last command or signal and what it did (ghost)

vars == << now, detectors, recorders, timers, awaiting, messages, voiceState,
           errorMessage, recorder, isRecording, silenceDetected,
           silenceDuration, recordingTimeoutRef, silenceTimeoutRef,
           audioChunksRef, silenceDetectorRef, apiKey, browser, nextId,
           recordings, sdHist, audioDispatches, commands, followed, hook,
           lastEvent >>

St ==
  [now |-> now, detectors |-> detectors, recorders |-> recorders,
   timers |-> timers, awaiting |-> awaiting, messages |-> messages,
   voiceState |-> voiceState, errorMessage |-> errorMessage,
   recorder |-> recorder, isRecording |-> isRecording,
   silenceDetected |-> silenceDetected, silenceDuration |-> silenceDuration,
   recordingTimeoutRef |-> recordingTimeoutRef,
   silenceTimeoutRef |-> silenceTimeoutRef,
   audioChunksRef |-> audioChunksRef,
   silenceDetectorRef |-> silenceDetectorRef, apiKey |-> apiKey,
   browser |-> browser, nextId |-> nextId, recordings |-> recordings,
   sdHist |-> sdHist, audioDispatches |-> audioDispatches,
   commands |-> commands, followed |-> followed, hook |-> hook,
   lastEvent |-> lastEvent]

Commit(s) ==
  /\ now' = s.now
  /\ detectors' = s.detectors
  /\ recorders' = s.recorders
  /\ timers' = s.timers
  /\ awaiting' = s.awaiting
  /\ messages' = s.messages
  /\ voiceState' = s.voiceState
  /\ errorMessage' = s.errorMessage
  /\ recorder' = s.recorder
  /\ isRecording' = s.isRecording
  /\ silenceDetected' = s.silenceDetected
  /\ silenceDuration' = s.silenceDuration
  /\ recordingTimeoutRef' = s.recordingTimeoutRef
  /\ silenceTimeoutRef' = s.silenceTimeoutRef
  /\ audioChunksRef' = s.audioChunksRef
  /\ silenceDetectorRef' = s.silenceDetectorRef
  /\ apiKey' = s.apiKey
  /\ browser' = s.browser
  /\ nextId' = s.nextId
  /\ recordings' = s.recordings
  /\ sdHist' = s.sdHist
  /\ audioDispatches' = s.audioDispatches
  /\ commands' = s.commands
  /\ hook' = s.hook
  /\ followed' = s.followed
  /\ lastEvent' = s.lastEvent

----------------------------------------------------------------------------
(* Bounds of the model *)

MaxTime == 3
MaxTimeAlone == 4
LongDuration == 2
EdgeCap == 3
MaxAwaiting == 2
MaxTimers == 3
MaxDetectors == 3
MaxRecorders == 1
MaxRecordings == 1
MaxKeylessRecordings == 2
MaxMessages == 4
MaxChunks == 1
MaxCommands == 2
MaxHookCalls == 4

(* Program constants; audio levels are in hundredths of full scale *)

DefaultSilenceThreshold == 5

Levels == {0, 1, 5, 50}
Durations == {0, LongDuration}

\* what is typed into the text input, and what a transcription returns:
\* sequences of characters
Texts == {<< >>, <<" ">>, <<"a">>}

IsSpace(c) == c = " "

\* ghost: the text holds nothing but spaces
WhitespaceOnly(str) == \A i \in DOMAIN str : str[i] = " "

RECURSIVE TrimStart(_)
TrimStart(str) ==
  IF str # << >> /\ IsSpace(Head(str)) THEN TrimStart(Tail(str)) ELSE str

RECURSIVE TrimEnd(_)
TrimEnd(str) ==
  IF str # << >> /\ IsSpace(str[Len(str)])
    THEN TrimEnd(SubSeq(str, 1, Len(str) - 1)) ELSE str

\* String.prototype.trim
Trim(str) == TrimEnd(TrimStart(str))

\* "!transcription": the empty string is falsy
IsFalsy(str) == str = << >>

\* a test for the empty text that does not trim: the variant C18 and C19
\* are sensitive to
EmptyUntrimmed(str) == str = << >>

\* "!message.trim()", "transcription.trim() === ''"
IsBlank(str) == IsFalsy(Trim(str))

Min(a, b) == IF a < b THEN a ELSE b

----------------------------------------------------------------------------
(* Timers *)

\* what a callback of the component captured from the render that created it
NoEnv == [wired |-> FALSE, recorder |-> 0, isRecording |-> FALSE,
          voiceState |-> "idle", messages |-> << >>, silenceDuration |-> 0]

\* the values a function created during the current render closes over
Env(s) == [wired |-> TRUE, recorder |-> s.recorder,
           isRecording |-> s.isRecording, voiceState |-> s.voiceState,
           messages |-> s.messages, silenceDuration |-> s.silenceDuration]

\* useAudioRecorder and useSilenceDetector before anything was recorded:
\* audioBlob null, recorder.current null, detector.current null
NoHook == [audioBlob |-> 0, recorder |-> 0, detector |-> 0]

NoTimer == [kind |-> "none", det |-> 0, rec |-> 0, due |-> 0, armedAt |-> 0,
            stRunning |-> FALSE, stFlag |-> FALSE, env |-> NoEnv, gen |-> 0,
            reply |-> 0]

NoAwait == [kind |-> "none", det |-> 0, rec |-> 0, env |-> NoEnv, msgId |-> 0,
            gen |-> 0, reply |-> 0, context |-> << >>, text |-> << >>]

\* the part of a render a function closes over: handleStopRecording reads
\* recorder and, through processAudioAndGetResponse, messages; the recorder's
\* onStop listener reads messages alone
StopEnv(env) == [NoEnv EXCEPT !.wired = TRUE, !.recorder = env.recorder,
                             !.messages = env.messages]

ListenerEnv(env) == [NoEnv EXCEPT !.wired = TRUE, !.messages = env.messages]

ClearTimeout(s, t) ==
  IF BagIn(t, s.timers) THEN [s EXCEPT !.timers = @ (-) SetToBag({t})] ELSE s

\* a setTimeout that arms nothing: the variant C13 is sensitive to
SetTimeoutLost(s, t) == s

SetTimeout(s, t) == [s EXCEPT !.timers = @ (+) SetToBag({t})]

Await(s, k) == [s EXCEPT !.awaiting = @ (+) SetToBag({k})]

Resume(s, k) == [s EXCEPT !.awaiting = @ (-) SetToBag({k})]

----------------------------------------------------------------------------
(* Part 1: silence-detector.service.ts *)

Inc(n) == Min(n + 1, EdgeCap)

NewHist ==
  [silenceEdges |-> 0, speechEdges |-> 0, quietToLoud |-> 0,
   lastSample |-> "none", lastLoudAt |-> 0, interrupted |-> FALSE,
   edgesWhileStopped |-> 0]

\* createSilenceDetector: the closure variables of one instance
NewDetector(threshold, duration, env) ==
  [silenceThreshold |-> threshold, silenceDuration |-> duration, env |-> env,
   analyzer |-> FALSE, stream |-> FALSE, checkIntervalTimer |-> FALSE,
   silenceTimer |-> NoTimer, isSilent |-> FALSE, isInitialized |-> FALSE,
   isRunning |-> FALSE, silenceDetectedFlag |-> FALSE, tickDue |-> FALSE]

CreateSilenceDetector(s, threshold, duration, env) ==
  [s EXCEPT !.detectors = Append(@, NewDetector(threshold, duration, env)),
            !.sdHist = Append(@, NewHist)]

AtOrBelow(audioLevel, threshold) == audioLevel <= threshold

isAudioSilent(audioLevel, threshold) == audioLevel < threshold

\* stop()
SdStop(s, i) ==
  LET d == s.detectors[i]
      s1 == [s EXCEPT !.detectors[i].isRunning = FALSE,
                      !.detectors[i].checkIntervalTimer = FALSE,
                      !.detectors[i].tickDue = FALSE]
  IN IF d.silenceTimer # NoTimer
       THEN [ClearTimeout(s1, d.silenceTimer)
               EXCEPT !.detectors[i].silenceTimer = NoTimer]
       ELSE s1

\* cleanup()
SdCleanup(s, i) ==
  [SdStop(s, i) EXCEPT !.detectors[i].analyzer = FALSE,
                       !.detectors[i].stream = FALSE,
                       !.detectors[i].isInitialized = FALSE,
                       !.detectors[i].silenceDetectedFlag = FALSE]

StartOverRunning(s, i) ==
  LET s1 == [s EXCEPT !.detectors[i].isRunning = TRUE,
                      !.detectors[i].silenceDetectedFlag = FALSE,
                      !.detectors[i].isSilent = FALSE,
                      !.detectors[i].checkIntervalTimer = TRUE,
                      !.sdHist[i].silenceEdges = 0,
                      !.sdHist[i].speechEdges = 0,
                      !.sdHist[i].quietToLoud = 0,
                      !.sdHist[i].lastSample = "none"]
  IN IF s.detectors[i].silenceTimer # NoTimer
       THEN [ClearTimeout(s1, s.detectors[i].silenceTimer)
               EXCEPT !.detectors[i].silenceTimer = NoTimer]
       ELSE s1

\* start(), from "if (isRunning) return" on
SdStartResume(s, i) ==
  LET d == s.detectors[i]
      s1 == [s EXCEPT !.detectors[i].isRunning = TRUE,
                      !.detectors[i].silenceDetectedFlag = FALSE,
                      !.detectors[i].isSilent = FALSE,
                      !.detectors[i].checkIntervalTimer = TRUE,
                      !.sdHist[i].silenceEdges = 0,
                      !.sdHist[i].speechEdges = 0,
                      !.sdHist[i].quietToLoud = 0,
                      !.sdHist[i].lastSample = "none"]
  IN IF d.isRunning THEN s
     ELSE IF d.silenceTimer # NoTimer
       THEN [ClearTimeout(s1, d.silenceTimer)
               EXCEPT !.detectors[i].silenceTimer = NoTimer]
       ELSE s1

\* start(): suspends at "await initialize()" when not initialized
SdStart(s, i) ==
  IF ~s.detectors[i].isInitialized
    THEN Await(s, [NoAwait EXCEPT !.kind = "sdStart", !.det = i])
    ELSE SdStartResume(s, i)

\* initialize(), after getUserMedia resolved
SdInitializeOk(s, i) ==
  [s EXCEPT !.detectors[i].stream = TRUE,
            !.detectors[i].analyzer = TRUE,
            !.detectors[i].isInitialized = TRUE,
            !.detectors[i].silenceDetectedFlag = FALSE]

\* handleSilenceDetected of VoiceChatInterface, with the values its render saw
handleSilenceDetected(s, env) ==
  LET s1 == [s EXCEPT !.silenceDetected = TRUE]
      s2 == IF s1.silenceTimeoutRef # NoTimer
              THEN ClearTimeout(s1, s1.silenceTimeoutRef) ELSE s1
      t  == [NoTimer EXCEPT !.kind = "grace", !.env = StopEnv(env)]
  IN [SetTimeout(s2, t) EXCEPT !.silenceTimeoutRef = t]

\* listeners.onSilenceDetected?.(); t is the timer it is called from, or NoTimer
OnSilenceDetected(s, i, t) ==
  LET d == s.detectors[i]
      h == s.sdHist[i]
      h1 == IF d.isRunning
              THEN [h EXCEPT !.silenceEdges = Inc(@)]
              ELSE [h EXCEPT !.edgesWhileStopped = Inc(@)]
      h2 == IF t # NoTimer /\ h.lastLoudAt > t.armedAt
              THEN [h1 EXCEPT !.interrupted = TRUE] ELSE h1
  IN IF d.env.wired THEN handleSilenceDetected(s, d.env)
     ELSE [s EXCEPT !.sdHist[i] = h2]

\* listeners.onSpeechDetected?.()
OnSpeechDetected(s, i) ==
  IF s.detectors[i].env.wired
    THEN [s EXCEPT !.silenceDetected = FALSE]
    ELSE [s EXCEPT !.sdHist[i].speechEdges = Inc(@)]

\* the object literal { isSilent, silenceTimer, silenceDetectedFlag, isRunning }
\* built at each call: a copy of the closure variables
StateOf(d) ==
  [isSilent |-> d.isSilent, silenceTimer |-> d.silenceTimer,
   silenceDetectedFlag |-> d.silenceDetectedFlag, isRunning |-> d.isRunning]

\* handleSilence(state, options, listeners): the world after it and its result
handleSilence(s, i, state) ==
  LET d == s.detectors[i]
      t == [NoTimer EXCEPT !.kind = "silence", !.det = i,
                           !.due = s.now + d.silenceDuration,
                           !.armedAt = s.now,
                           !.stRunning = state.isRunning,
                           !.stFlag = state.silenceDetectedFlag]
  IN IF ~state.isSilent
       THEN IF d.silenceDuration = 0
              THEN [s |-> IF state.isRunning /\ ~state.silenceDetectedFlag
                            THEN OnSilenceDetected(s, i, NoTimer) ELSE s,
                    ret |-> NoTimer]
              ELSE [s |-> SetTimeout(s, t), ret |-> t]
       ELSE [s |-> s, ret |-> state.silenceTimer]

\* the setTimeout callback of handleSilence
SilenceTimerCallback(s, t) ==
  IF t.stRunning /\ ~t.stFlag THEN OnSilenceDetected(s, t.det, t) ELSE s

\* handleSpeech(state, listeners)
handleSpeech(s, i, state) ==
  IF state.isSilent
    THEN OnSpeechDetected(
           IF state.silenceTimer # NoTimer
             THEN ClearTimeout(s, state.silenceTimer) ELSE s, i)
    ELSE s

\* ghost: what the sample sequence of the run looked like; kept for a
\* detector without the component behind it
Observe(s, i, silent) ==
  LET h == s.sdHist[i]
  IN IF s.detectors[i].env.wired THEN s
     ELSE [s EXCEPT !.sdHist[i] =
        IF silent THEN [h EXCEPT !.lastSample = "quiet"]
        ELSE [h EXCEPT !.lastSample = "loud", !.lastLoudAt = s.now,
                       !.quietToLoud =
                          IF h.lastSample = "quiet" THEN Inc(@) ELSE @]]

\* "silenceTimer = handleSilence(...)": the closure variable takes the result
AssignSilenceTimer(r, i) == [r.s EXCEPT !.detectors[i].silenceTimer = r.ret]

\* the body of the setInterval callback once the level has been read
CheckLevel(s, i, isSoundSilent) ==
  IF isSoundSilent
    THEN AssignSilenceTimer(handleSilence(s, i, StateOf(s.detectors[i])), i)
    ELSE handleSpeech(s, i, StateOf(s.detectors[i]))

\* the setInterval callback of start()
SdInterval(s, i, audioLevel) ==
  LET d == s.detectors[i]
      isSoundSilent == isAudioSilent(audioLevel, d.silenceThreshold)
  IN IF ~d.analyzer \/ ~d.isRunning
       THEN [s EXCEPT !.detectors[i].tickDue = FALSE]
       ELSE CheckLevel(Observe([s EXCEPT !.detectors[i].tickDue = FALSE],
                               i, isSoundSilent),
                       i, isSoundSilent)

----------------------------------------------------------------------------
(* Part 1a: the detector before it was split into functions
   (src/unnamed/part_000): the callbacks read and write the closure
   variables themselves *)

\* the setTimeout callback of the interval callback
OrigTimerCallback(s, t) ==
  LET d == s.detectors[t.det]
  IN IF d.isRunning /\ ~d.silenceDetectedFlag
       THEN OnSilenceDetected(
              [s EXCEPT !.detectors[t.det].silenceDetectedFlag = TRUE],
              t.det, t)
       ELSE s

\* "if (!isSilent) { isSilent = true; ... }" of the interval callback
OrigSilence(s, i) ==
  LET d == s.detectors[i]
      t == [NoTimer EXCEPT !.kind = "silence", !.det = i,
                           !.due = s.now + d.silenceDuration,
                           !.armedAt = s.now]
      s1 == [s EXCEPT !.detectors[i].isSilent = TRUE]
  IN IF d.isSilent THEN s
     ELSE IF d.silenceDuration = 0
       THEN IF d.isRunning /\ ~d.silenceDetectedFlag
              THEN OnSilenceDetected(
                     [s1 EXCEPT !.detectors[i].silenceDetectedFlag = TRUE],
                     i, NoTimer)
              ELSE s1
       ELSE [SetTimeout(s1, t) EXCEPT !.detectors[i].silenceTimer = t]

\* "if (isSilent) { isSilent = false; ... }" of the interval callback
OrigSpeech(s, i) ==
  LET d == s.detectors[i]
      s1 == [s EXCEPT !.detectors[i].isSilent = FALSE]
  IN IF ~d.isSilent THEN s
     ELSE OnSpeechDetected(
            IF d.silenceTimer # NoTimer
              THEN [ClearTimeout(s1, d.silenceTimer)
                      EXCEPT !.detectors[i].silenceTimer = NoTimer]
              ELSE s1, i)

\* the setInterval callback of start()
OrigInterval(s, i, audioLevel) ==
  LET d == s.detectors[i]
      s1 == [s EXCEPT !.detectors[i].tickDue = FALSE]
      silent == audioLevel < d.silenceThreshold
  IN IF ~d.analyzer \/ ~d.isRunning THEN s1
     ELSE IF silent THEN OrigSilence(Observe(s1, i, silent), i)
     ELSE OrigSpeech(Observe(s1, i, silent), i)

----------------------------------------------------------------------------
(* Part 2: recorder.service.ts *)

\* createAudioRecorder: the closure variables of one instance; events are
\* the MediaRecorder events queued for delivery
NewRecorder(env) ==
  [mediaRecorder |-> "null", audioChunks |-> << >>, stream |-> FALSE,
   events |-> << >>, env |-> env, gen |-> 0,
   starts |-> << >>, heard |-> 0, made |-> 0, orphans |-> << >>]

\* the recorder was created by the component, with its listeners
Wired(s, r) == s.recorders[r].env.wired

\* getState()
RecGetState(s, r) == s.recorders[r].mediaRecorder

\* a MediaRecorder that cleanup() let go of while events of it were queued:
\* its listeners keep the array they were given
Orphan(rec) ==
  [events |-> rec.events, audioChunks |-> rec.audioChunks,
   starts |-> rec.starts, heard |-> rec.heard, made |-> rec.made]

\* initialize(), after getUserMedia resolved: a new MediaRecorder whose
\* listeners are given the array that audioChunks names now
RecInitializeOk(s, r) ==
  LET rec == s.recorders[r]
  IN IF rec.mediaRecorder = "null" /\ rec.events # << >>
       THEN [s EXCEPT !.recorders[r] =
               [rec EXCEPT !.stream = TRUE, !.mediaRecorder = "inactive",
                           !.events = << >>, !.audioChunks = << >>,
                           !.starts = << >>, !.heard = 0, !.made = 0,
                           !.orphans = Append(@, Orphan(rec))]]
       ELSE [s EXCEPT !.recorders[r].stream = TRUE,
                      !.recorders[r].mediaRecorder = "inactive"]

\* start(timeslice), from "if (mediaRecorder?.state === 'inactive')" on
RecStartResume(s, r) ==
  IF RecGetState(s, r) = "inactive"
    THEN [s EXCEPT !.recordings = @ + 1,
                   !.recorders[r].mediaRecorder = "recording",
                   !.recorders[r].gen = s.recordings + 1,
                   !.recorders[r].starts = Append(@, s.recordings + 1),
                   !.recorders[r].events = Append(@, "start")]
    ELSE s

\* start(timeslice): suspends at "await initialize()" without a mediaRecorder
RecStart(s, r) ==
  IF RecGetState(s, r) = "null"
    THEN Await(s, [NoAwait EXCEPT !.kind = "recStart", !.rec = r])
    ELSE RecStartResume(s, r)

\* new Blob(chunks): the chunks and the recording they come from
Blob(chunks) ==
  [chunks |-> chunks, gen |-> IF chunks = << >> THEN 0 ELSE chunks[1]]

StopUnguarded(s, r) ==
  IF RecGetState(s, r) # "null"
    THEN [s EXCEPT !.recorders[r].mediaRecorder = "inactive",
                   !.recorders[r].events = @ \o << "dataavailable", "stop" >>]
    ELSE s

\* stop(): MediaRecorder.stop() queues a last dataavailable and a stop event
RecStop(s, r) ==
  IF RecGetState(s, r) = "recording"
    THEN [s EXCEPT !.recorders[r].mediaRecorder = "inactive",
                   !.recorders[r].events = @ \o << "dataavailable", "stop" >>]
    ELSE s

CleanupKeepsRecorder(s, r) ==
  [RecStop(s, r) EXCEPT !.recorders[r].stream = FALSE,
                        !.recorders[r].audioChunks = << >>]

\* the array of a MediaRecorder that was let go of is out of reach once no
\* event of that MediaRecorder is queued
Forget(s, r) ==
  IF RecGetState(s, r) = "null" /\ s.recorders[r].events = << >>
    THEN [s EXCEPT !.recorders[r].audioChunks = << >>,
                   !.recorders[r].heard = 0, !.recorders[r].made = 0]
    ELSE s

CleanupEmptiesArray(s, r) ==
  [RecStop(s, r) EXCEPT !.recorders[r].mediaRecorder = "null",
                        !.recorders[r].stream = FALSE,
                        !.recorders[r].audioChunks = << >>]

\* cleanup(): "audioChunks = []" names a new array; the listeners of the
\* MediaRecorder keep the old one
RecCleanup(s, r) ==
  Forget([RecStop(s, r) EXCEPT !.recorders[r].mediaRecorder = "null",
                               !.recorders[r].stream = FALSE], r)

----------------------------------------------------------------------------
(* Part 3: VoiceChatInterface.tsx *)

ErrorReset == [NoTimer EXCEPT !.kind = "errorReset"]

\* setErrorMessage(msg); setVoiceState("error"); setTimeout(reset, 5000)
ShowError(s, msg) ==
  SetTimeout([s EXCEPT !.errorMessage = msg, !.voiceState = "error"],
             ErrorReset)

\* the callback of the 5000 ms reset timers
ErrorResetCallback(s) ==
  [s EXCEPT !.voiceState = "idle", !.errorMessage = "null"]

\* textToSpeech.speak(text, options) of speech-synthesis.service: it returns
\* the controller of an utterance that start() has not yet handed to the
\* synthesizer
speak(reply) == [type |-> "controller", reply |-> reply, started |-> FALSE]

\* only a promise has a "then" method
HasThen(v) == v.type = "promise"

\* "speech.start()" inside the callback given to ".then": the utterance is
\* handed to the synthesizer, speech.onEnd will report its end
SpeechStart(s, speech) ==
  Await(s, [NoAwait EXCEPT !.kind = "speaking", !.reply = speech.reply])

\* fallbackToTextToSpeech(text): ".then" on what speak() returned throws a
\* TypeError when that is not a promise; without speech synthesis the reply
\* is shown for 3000 ms
fallbackToTextToSpeech(s, reply) ==
  IF s.browser.speech
    THEN IF HasThen(speak(reply))
           THEN [s |-> SpeechStart(s, speak(reply)), threw |-> FALSE]
           ELSE [s |-> s, threw |-> TRUE]
    ELSE [s |-> SetTimeout(s, [NoTimer EXCEPT !.kind = "simulated",
                                              !.reply = reply]),
          threw |-> FALSE]

\* audio.onended, speech.onEnd callback, and the 3000 ms simulated wait
PlaybackDone(s) ==
  [s EXCEPT !.voiceState = "idle", !.audioChunksRef = << >>]

\* an error handler that shows the error and marks no message, as the outer
\* "catch (error)" of both handlers does: the variant C17 is sensitive to
CatchOuter(s, msg, messageId) == ShowError(s, msg)

\* an error handler that takes the failed entry out of the history: the
\* variant C23 is sensitive to
RemoveFailed(s, msg, messageId) ==
  ShowError([s EXCEPT !.messages = SelectSeq(@, LAMBDA m : m.id # messageId)],
            msg)

\* handleApiError(error, messageId)
handleApiError(s, msg, messageId) ==
  LET s1 == [s EXCEPT !.errorMessage = msg, !.voiceState = "error",
                      !.messages = [k \in DOMAIN s.messages |->
                         IF s.messages[k].id = messageId
                           THEN [s.messages[k] EXCEPT !.status = "error",
                                                      !.errorMessage = msg]
                           ELSE s.messages[k]]]
  IN SetTimeout(s1, ErrorReset)

\* openai.formatConversationHistory over the filtered history: the ids kept
FormatHistory(msgs, dropSending) ==
  SelectSeq(msgs, LAMBDA m : m.status # "error"
                             /\ (dropSending => m.status # "sending"))

NewMessage(id, sender, content, status) ==
  [id |-> id, sender |-> sender, content |-> content, status |-> status,
   errorMessage |-> ""]

\* processAudioAndGetResponse(audioBlob), up to "await sendAudioToGPT4o",
\* which first awaits transcribeAudio
processAudioAndGetResponse(s, env, blob) ==
  IF s.apiKey = ""
    THEN ShowError(s, "OpenAI API key is required")
    ELSE LET userMessage ==
               NewMessage(s.nextId, "user", <<"Processing your audio...">>,
                          "sending")
             s1 == [s EXCEPT !.messages = Append(@, userMessage),
                             !.voiceState = "processing",
                             !.nextId = @ + 1,
                             !.audioDispatches = Append(@, blob.gen)]
         IN Await(s1, [NoAwait EXCEPT !.kind = "transcribeAudio",
                         !.msgId = userMessage.id, !.gen = blob.gen,
                         !.context = FormatHistory(env.messages, TRUE)])

\* sendAudioToGPT4o after "await transcribeAudio": an empty transcription
\* throws before sendMessageToGPT4o is called, and the component's
\* "catch (apiError)" receives it
OnTranscription(s, k, transcription) ==
  IF IsFalsy(transcription) \/ IsBlank(transcription)
    THEN handleApiError(s, "Could not transcribe audio", k.msgId)
    ELSE Await(s, [k EXCEPT !.kind = "sendAudio", !.text = transcription])

\* the playback block "if (audioData) { ... } else { ... }" of both handlers
PlayResponse(s, reply, audioData) ==
  CASE audioData = "ok" ->
         [s |-> SetTimeout(s, [NoTimer EXCEPT !.kind = "playDelay",
                                              !.reply = reply]),
          threw |-> FALSE]
    [] OTHER -> fallbackToTextToSpeech(s, reply)

\* "catch (apiError) { handleApiError(apiError, userMessage.id) }" around the
\* playback block
CatchApiError(p, messageId) ==
  IF p.threw
    THEN handleApiError(p.s, "speak(...).then is not a function", messageId)
    ELSE p.s

\* a reply that is played without being put in the history: the variant C21
\* is sensitive to
PlayUnlisted(s, k, userContent, audioData) ==
  CatchApiError(PlayResponse([s EXCEPT !.voiceState = "speaking",
                                        !.nextId = @ + 1],
                             s.nextId, audioData), k.msgId)

\* both handlers after the backend call resolved: history, speaking, playback
OnResponse(s, k, userContent, audioData) ==
  LET aiResponse == NewMessage(s.nextId, "ai", <<"reply">>, "sent")
      s1 == [s EXCEPT !.messages =
                        Append([j \in DOMAIN s.messages |->
                                  IF s.messages[j].id = k.msgId
                                    THEN [s.messages[j] EXCEPT
                                            !.content = userContent,
                                            !.status = "sent"]
                                    ELSE s.messages[j]], aiResponse),
                      !.nextId = @ + 1,
                      !.voiceState = "speaking"]
  IN CatchApiError(PlayResponse(s1, aiResponse.id, audioData), k.msgId)

\* handleSendMessage(message), up to "await sendMessageToGPT4o"
handleSendMessage(s, env, message) ==
  IF IsBlank(message) THEN s
  ELSE IF s.apiKey = "" THEN ShowError(s, "OpenAI API key is required")
  ELSE LET userMessage == NewMessage(s.nextId, "user", message, "sending")
           s1 == [s EXCEPT !.messages = Append(@, userMessage),
                           !.voiceState = "processing",
                           !.nextId = @ + 1]
       IN Await(s1, [NoAwait EXCEPT !.kind = "sendText",
                       !.msgId = userMessage.id, !.text = message,
                       !.context = FormatHistory(env.messages, FALSE)])

\* initializeSilenceDetector(), up to "await detector.initialize()"
initializeSilenceDetector(s, env, kind) ==
  LET s1 == CreateSilenceDetector(s, DefaultSilenceThreshold,
                                  env.silenceDuration, StopEnv(env))
  IN Await(s1, [NoAwait EXCEPT !.kind = kind, !.det = Len(s1.detectors),
                  !.env = IF kind = "reinitDetector"
                            THEN [NoEnv EXCEPT !.wired = TRUE,
                                    !.isRecording = env.isRecording]
                            ELSE ListenerEnv(env)])

\* initializeRecorder(), from createAudioRecorder to "await initialize()"
CreateRecorder(s, env) ==
  LET s1 == [s EXCEPT !.recorders = Append(@, NewRecorder(ListenerEnv(env)))]
  IN Await(s1, [NoAwait EXCEPT !.kind = "initRecorder",
                               !.rec = Len(s1.recorders)])

\* initializeRecorder(), up to its first await
initializeRecorder(s, env) ==
  IF ~s.browser.recording
    THEN ShowError(s, "Audio recording is not supported in your browser.")
    ELSE IF s.silenceDetectorRef = 0
      THEN initializeSilenceDetector(s, env, "initDetector")
      ELSE CreateRecorder(s, env)

\* the ceiling timer of handleStartRecording
Ceiling(s, r) ==
  [NoTimer EXCEPT !.kind = "ceiling", !.rec = r, !.gen = s.recordings]

\* "recordingTimeoutRef.current = setTimeout(..., MAX_RECORDING_DURATION)"
ArmCeiling(s, r) ==
  [SetTimeout(s, Ceiling(s, r)) EXCEPT !.recordingTimeoutRef = Ceiling(s, r)]

\* "if (silenceDetectorRef.current) silenceDetectorRef.current.start()"
StartDetector(s) ==
  IF s.silenceDetectorRef # 0 THEN SdStart(s, s.silenceDetectorRef) ELSE s

\* handleStartRecording(), up to its first await
handleStartRecording(s, env) ==
  IF env.isRecording \/ env.voiceState \in {"processing", "speaking", "error"}
    THEN s
    ELSE IF env.recorder = 0
      THEN initializeRecorder([s EXCEPT !.audioChunksRef = << >>], env)
      ELSE ArmCeiling(
             StartDetector(RecStart([s EXCEPT !.audioChunksRef = << >>],
                                    env.recorder)),
             env.recorder)

\* handleStartRecording(): the 100 ms callback after setRecorder(newRecorder)
StartDelayCallback(s, t) == ArmCeiling(RecStart(s, t.rec), t.rec)

\* a ceiling callback that leaves the recorder alone: the variant C16 is
\* sensitive to
CeilingIgnored(s, t) == s

\* the callback of the MAX_RECORDING_DURATION timer
CeilingCallback(s, t) ==
  IF RecGetState(s, t.rec) = "recording" THEN RecStop(s, t.rec) ELSE s

\* "if (recordingTimeoutRef.current) { clearTimeout(...); ... = null }"
ClearRecordingTimeout(s) ==
  IF s.recordingTimeoutRef # NoTimer
    THEN [ClearTimeout(s, s.recordingTimeoutRef)
            EXCEPT !.recordingTimeoutRef = NoTimer]
    ELSE s

\* "if (silenceTimeoutRef.current) { clearTimeout(...); ... = null }"
ClearSilenceTimeout(s) ==
  IF s.silenceTimeoutRef # NoTimer
    THEN [ClearTimeout(s, s.silenceTimeoutRef)
            EXCEPT !.silenceTimeoutRef = NoTimer]
    ELSE s

\* "if (silenceDetectorRef.current?.isRunning()) ...stop()"
StopRunningDetector(s) ==
  IF s.silenceDetectorRef # 0 /\ s.detectors[s.silenceDetectorRef].isRunning
    THEN SdStop(s, s.silenceDetectorRef) ELSE s

\* "else if (audioChunksRef.current.length > 0)" of both branches
ProcessChunks(s, env) ==
  IF s.audioChunksRef # << >>
    THEN processAudioAndGetResponse(s, env, Blob(s.audioChunksRef))
    ELSE s

\* handleStopRecording(), from "if (recorder)" on
StopOrProcess(s, env) ==
  IF env.recorder # 0 /\ RecGetState(s, env.recorder) = "recording"
    THEN RecStop(s, env.recorder)
    ELSE ProcessChunks(s, env)

\* handleStopRecording()
handleStopRecording(s, env) ==
  StopOrProcess(
    StopRunningDetector(ClearSilenceTimeout(ClearRecordingTimeout(s))), env)

\* recorder listener onStart
onStart(s, r) ==
  StartDetector([s EXCEPT !.isRecording = TRUE, !.voiceState = "recording",
                          !.audioChunksRef = << >>, !.errorMessage = "null",
                          !.silenceDetected = FALSE])

\* "if (silenceDetectorRef.current) silenceDetectorRef.current.stop()"
StopDetector(s) ==
  IF s.silenceDetectorRef # 0 THEN SdStop(s, s.silenceDetectorRef) ELSE s

\* onStop and onError: stop silence detection, clear the grace timer
StopDetectionAndGrace(s) == ClearSilenceTimeout(StopDetector(s))

\* recorder listener onStop(audioBlob)
onStop(s, r, audioBlob) ==
  processAudioAndGetResponse(
    StopDetectionAndGrace([s EXCEPT !.isRecording = FALSE]),
    s.recorders[r].env, audioBlob)

\* recorder listener onError(error)
onError(s, r) ==
  SetTimeout(
    StopDetectionAndGrace([s EXCEPT !.isRecording = FALSE,
                                    !.voiceState = "error",
                                    !.errorMessage = "Recording error"]),
    ErrorReset)

\* useEffect(..., [recorder]): the cleanup of the effect of the render
\* before, run when recorder changed
CleanupTimeouts(s) ==
  ClearTimeout(ClearTimeout(s, s.recordingTimeoutRef), s.silenceTimeoutRef)

CleanupRecorder(old, s) ==
  IF old.recorder # 0 THEN RecCleanup(s, old.recorder) ELSE s

CleanupDetector(s) ==
  IF s.silenceDetectorRef # 0 THEN SdCleanup(s, s.silenceDetectorRef) ELSE s

EffectCleanup(old, s) ==
  CleanupDetector(CleanupRecorder(old, CleanupTimeouts(s)))

\* useEffect(..., [silenceDuration, isRecording])
EffectReinitialize(s) ==
  IF s.silenceDetectorRef # 0 /\ s.detectors[s.silenceDetectorRef].isRunning
    THEN initializeSilenceDetector(SdStop(s, s.silenceDetectorRef), Env(s),
                                   "reinitDetector")
    ELSE s

\* useEffect(..., [voiceState, recorder])
EffectResetRecorder(s) ==
  IF s.voiceState = "idle" /\ s.recorder # 0
     /\ RecGetState(s, s.recorder) # "inactive"
    THEN RecStop(s, s.recorder)
    ELSE s

\* the render that follows a handler: the effects whose dependencies changed
RunCleanup(old, s) ==
  IF s.recorder # old.recorder THEN EffectCleanup(old, s) ELSE s

RunReinitialize(old, s) ==
  IF s.silenceDuration # old.silenceDuration \/ s.isRecording # old.isRecording
    THEN EffectReinitialize(s) ELSE s

RunResetRecorder(old, s) ==
  IF s.voiceState # old.voiceState \/ s.recorder # old.recorder
    THEN EffectResetRecorder(s) ELSE s

Render(old, s) ==
  RunResetRecorder(old, RunReinitialize(old, RunCleanup(old, s)))

----------------------------------------------------------------------------
(* Part 4: the VoiceChat built on hooks (src/unnamed/part_004), with
   use-audio-recorder.ts and use-silence-detector.ts *)

\* useChatHistory([...]): the greeting the history starts with
Welcome == NewMessage(0, "ai", <<"reply">>, "sent")

\* stopDetection()
stopDetection(s) ==
  IF s.hook.detector # 0 THEN SdStop(s, s.hook.detector) ELSE s

\* startDetection(), up to "await initialize()" of the hook, which creates
\* the detector with the callbacks of this render
startDetection(s) ==
  LET s1 == [s EXCEPT !.silenceDetected = FALSE]
  IN IF s.hook.detector = 0
       THEN Await(CreateSilenceDetector(s1, DefaultSilenceThreshold,
                                        s.silenceDuration, NoEnv),
                  [NoAwait EXCEPT !.kind = "hookInitDetector",
                                  !.det = Len(s.detectors) + 1])
       ELSE SdStart(s1, s.hook.detector)

\* handleStartRecording after "await audioRecorder.startRecording(1000)"
AfterStartRecording(s) == startDetection(stopDetection(s))

\* startRecording(timeslice), up to "await initialize()" of the hook
startRecording(s) ==
  IF s.hook.recorder = 0
    THEN Await([s EXCEPT !.recorders = Append(@, NewRecorder(NoEnv))],
               [NoAwait EXCEPT !.kind = "hookInitRecorder",
                               !.rec = Len(s.recorders) + 1])
    ELSE AfterStartRecording(RecStart(s, s.hook.recorder))

\* handleStartRecording of VoiceChat
VoiceChatStartRecording(s) ==
  IF s.voiceState \notin {"idle", "error"} \/ s.isRecording THEN s
  ELSE startRecording([s EXCEPT !.voiceState = "recording",
                                !.errorMessage = "null"])

\* processAudioInput(audioBlob), up to "await openAI.sendAudioMessage"
processAudioInput(s, audioBlob) ==
  LET userMessage ==
        NewMessage(s.nextId, "user", <<"Processing your audio...">>,
                   "sending")
      s1 == [s EXCEPT !.voiceState = "processing",
                      !.errorMessage = "null",
                      !.messages = Append(@, userMessage),
                      !.nextId = @ + 1,
                      !.audioDispatches = Append(@, audioBlob)]
  IN Await(s1, [NoAwait EXCEPT !.kind = "sendAudio",
                  !.msgId = userMessage.id, !.gen = audioBlob,
                  !.context = FormatHistory(s.messages, TRUE)])

\* stopRecording()
stopRecording(s) ==
  IF s.hook.recorder # 0 THEN RecStop(s, s.hook.recorder) ELSE s

\* handleStopRecording of VoiceChat: isRecording and audioBlob are the state
\* of the render the handler was created in
VoiceChatStopRecording(s) ==
  LET s1 == stopDetection(s)
      s2 == IF s.isRecording THEN stopRecording(s1) ELSE s1
  IN IF s.hook.audioBlob # 0 THEN processAudioInput(s2, s.hook.audioBlob)
     ELSE s2

\* the hook's initialize() resumes after "await newRecorder.initialize()",
\* then startRecording and handleStartRecording go on
HookRecorderReady(s, k, ok) ==
  IF ok
    THEN AfterStartRecording(
           RecStart([RecInitializeOk(s, k.rec) EXCEPT !.hook.recorder = k.rec],
                    k.rec))
    ELSE AfterStartRecording(s)

\* the hook's initialize() resumes after "await newDetector.initialize()",
\* then startDetection goes on
HookDetectorReady(s, k, ok) ==
  IF ok
    THEN SdStart([SdInitializeOk(s, k.det) EXCEPT !.hook.detector = k.det],
                 k.det)
    ELSE s

\* the listeners useAudioRecorder gives the recorder
HookListeners(s, r, e, audioBlob) ==
  CASE e = "start" -> [s EXCEPT !.isRecording = TRUE]
    [] e = "stop" -> [s EXCEPT !.isRecording = FALSE,
                               !.hook.audioBlob = audioBlob.gen]
    [] e = "error" -> [s EXCEPT !.isRecording = FALSE]
    [] OTHER -> s

\* processAudioInput after the backend call: history, then playResponse up
\* to its first await; a failure goes to voiceState.setError
AfterSendAudio(s, k, ok) ==
  IF ok
    THEN Await([s EXCEPT !.messages =
                  Append([j \in DOMAIN s.messages |->
                            IF s.messages[j].id = k.msgId
                              THEN [s.messages[j] EXCEPT !.content = <<"a">>,
                                                         !.status = "sent"]
                              ELSE s.messages[j]],
                         NewMessage(s.nextId, "ai", <<"reply">>, "sent")),
                        !.nextId = @ + 1,
                        !.voiceState = "speaking"],
               [NoAwait EXCEPT !.kind = "hookPlay", !.msgId = k.msgId])
    ELSE [s EXCEPT !.voiceState = "error", !.errorMessage = "API error"]

\* "finally { voiceState.setState('idle') }" of playResponse
AfterPlayback(s) == [s EXCEPT !.voiceState = "idle", !.errorMessage = "null"]

----------------------------------------------------------------------------
(* Actions *)

DetIds == 1..Len(detectors)
RecIds == 1..Len(recorders)

SilenceTimers == {t \in BagToSet(timers) : t.kind = "silence"}
TimersOf(kind) == {t \in BagToSet(timers) : t.kind = kind}
AwaitingOf(kinds) == {k \in BagToSet(awaiting) : k.kind \in kinds}

Sends(s) ==
  {k \in BagToSet(s.awaiting) :
     k.kind \in {"transcribeAudio", "sendAudio", "sendText"}}

Capturing(s) == {r \in 1..Len(s.recorders) :
                   s.recorders[r].mediaRecorder = "recording"}

\* the reply whose playback the component is in, 0 when not speaking
SpokenReply(s) ==
  IF s.voiceState = "speaking" /\ s.messages # << >>
     /\ s.messages[Len(s.messages)].sender = "ai"
    THEN s.messages[Len(s.messages)].id ELSE 0

NoEvent == [name |-> "none", before |-> "idle", after |-> "idle",
            history |-> FALSE, capture |-> FALSE, dispatch |-> FALSE,
            stale |-> FALSE]

WithinBounds(s) ==
  /\ Len(s.detectors) <= MaxDetectors
  /\ Len(s.recorders) <= MaxRecorders
  /\ Len(s.messages) <= MaxMessages
  /\ s.recordings <= IF s.apiKey = "" THEN MaxKeylessRecordings
                     ELSE s.followed.recordings
  /\ BagCardinality(s.timers) <= MaxTimers
  /\ BagCardinality(s.awaiting) <= MaxAwaiting
  /\ s.commands <= s.followed.commands

\* ghost: what the command or signal `name` did
Event(name, reply, old, s) ==
  [name |-> name, before |-> old.voiceState, after |-> s.voiceState,
   history |-> s.messages # old.messages,
   capture |-> \/ Capturing(s) # Capturing(old)
               \/ Len(s.recorders) # Len(old.recorders)
               \/ Len(s.detectors) # Len(old.detectors),
   dispatch |-> \E k \in Sends(s) : k \notin Sends(old),
   stale |-> reply # 0 /\ reply # SpokenReply(old)]

\* the clock is read only against pending silence timers and running
\* sampling intervals: it restarts when there are none
Restart(s) ==
  IF /\ \A i \in 1..Len(s.detectors) : ~s.detectors[i].checkIntervalTimer
     /\ \A t \in BagToSet(s.timers) : t.kind # "silence"
    THEN [s EXCEPT !.now = 0,
                   !.sdHist = [i \in DOMAIN s.sdHist |->
                                 [s.sdHist[i] EXCEPT !.lastLoudAt = 0]]]
    ELSE s

\* a handler ran: the render after it, within the bounds of the model
Step(name, reply, s) ==
  /\ WithinBounds(s)
  /\ Commit([s EXCEPT !.lastEvent = IF name = "other" THEN NoEvent
                                    ELSE Event(name, reply, St, s)])

\* the handler's result and the render after it are computed once each
Do(name, reply, s) ==
  \E handled \in {s} :
    \E rendered \in {Restart(Render(St, handled))} :
      Step(name, reply, rendered)

\* the user gives a command through VoiceControls or SilenceSettings
Command(name, s) == Do(name, 0, [s EXCEPT !.commands = @ + 1])

\* how long a run is followed: longer for a detector on its own
Horizon ==
  IF \A i \in DetIds : ~detectors[i].env.wired THEN MaxTimeAlone
  ELSE MaxTime

\* one sampling period passes
AdvanceTime ==
  /\ now < Horizon
  /\ \A i \in DetIds : ~detectors[i].tickDue
  /\ \A t \in SilenceTimers : t.due > now
  /\ \/ \E i \in DetIds : detectors[i].checkIntervalTimer
     \/ SilenceTimers # {}
  /\ Do("other", 0,
        [St EXCEPT !.now = now + 1,
                   !.detectors = [i \in DetIds |->
                      [detectors[i] EXCEPT !.tickDue =
                         detectors[i].checkIntervalTimer]]])

SampleTick ==
  \E i \in DetIds, level \in Levels :
    /\ detectors[i].tickDue
    /\ Do(IF detectors[i].silenceDuration = 0 /\ detectors[i].isRunning
              /\ isAudioSilent(level, detectors[i].silenceThreshold)
            THEN "silenceEdge" ELSE "other", 0,
          SdInterval(St, i, level))

SilenceTimerFires ==
  \E t \in SilenceTimers :
    /\ t.due <= now
    /\ Do("silenceEdge", 0, SilenceTimerCallback(ClearTimeout(St, t), t))

\* navigator.mediaDevices.getUserMedia settles for a suspended initialize()
GetUserMediaSettles ==
  \E k \in AwaitingOf({"sdStart", "sdInit", "recStart", "initDetector",
                        "reinitDetector", "initRecorder"}),
     ok \in BOOLEAN :
    LET s1 == Resume(St, k)
        sd == SdInitializeOk(s1, k.det)
        rc == RecInitializeOk(s1, k.rec)
    IN Do("other", 0,
          CASE k.kind = "sdStart" ->
                 IF ok THEN SdStartResume(sd, k.det) ELSE s1
            [] k.kind = "sdInit" -> IF ok THEN sd ELSE s1
            [] k.kind = "recStart" ->
                 IF ok THEN RecStartResume(rc, k.rec)
                 ELSE IF Wired(s1, k.rec) THEN onError(s1, k.rec) ELSE s1
            [] k.kind = "initDetector" ->
                 \* initializeSilenceDetector resumes, then initializeRecorder
                 CreateRecorder(
                   IF ok THEN [sd EXCEPT !.silenceDetectorRef = k.det] ELSE s1,
                   k.env)
            [] k.kind = "reinitDetector" ->
                 \* initializeSilenceDetector().then(...) of the effect
                 IF ok
                   THEN LET s2 == [sd EXCEPT !.silenceDetectorRef = k.det]
                        IN IF k.env.isRecording THEN SdStart(s2, k.det) ELSE s2
                   ELSE s1
            [] k.kind = "initRecorder" ->
                 \* initializeRecorder resumes, then handleStartRecording
                 IF ok
                   THEN SetTimeout([rc EXCEPT !.recorder = k.rec],
                                   [NoTimer EXCEPT !.kind = "startDelay",
                                                   !.rec = k.rec])
                   ELSE ShowError(onError(s1, k.rec),
                                  "Could not access microphone"))

\* the transcription request of an audio turn settles
TranscriptionSettles ==
  \E k \in AwaitingOf({"transcribeAudio"}), ok \in BOOLEAN,
     transcription \in Texts :
    /\ (~ok => transcription = << >>)
    /\ Do(IF ~ok THEN "backendFailed"
          ELSE IF WhitespaceOnly(transcription) THEN "transcribedBlank"
          ELSE "other", 0,
          IF ok
            THEN OnTranscription(Resume(St, k), k, transcription)
            ELSE handleApiError(Resume(St, k), "API error", k.msgId))

\* the response request of a turn settles
BackendSettles ==
  \E k \in AwaitingOf({"sendAudio", "sendText"}),
     outcome \in {"error", "none", "ok"} :
    Do(IF outcome = "error" THEN "backendFailed" ELSE "other", 0,
       IF outcome = "error"
         THEN handleApiError(Resume(St, k), "API error", k.msgId)
         ELSE OnResponse(Resume(St, k), k, k.text, outcome))

\* the 100 ms timer before audio.play(), and how play() settles
PlayDelayFires ==
  \E t \in TimersOf("playDelay"), played \in BOOLEAN :
    LET s1 == ClearTimeout(St, t)
    IN Do("other", 0,
          IF played
            THEN Await(s1, [NoAwait EXCEPT !.kind = "playing",
                                           !.reply = t.reply])
            ELSE fallbackToTextToSpeech(s1, t.reply).s)

\* audio.onended
AudioEnds ==
  \E k \in AwaitingOf({"playing"}) :
    Do("done", k.reply, PlaybackDone(Resume(St, k)))

\* the audio element stops with an error event: no handler is attached
AudioAborts ==
  \E k \in AwaitingOf({"playing"}) : Do("other", 0, Resume(St, k))

SimulatedWaitFires ==
  \E t \in TimersOf("simulated") :
    Do("done", t.reply, PlaybackDone(ClearTimeout(St, t)))

ErrorResetFires ==
  \E t \in TimersOf("errorReset") :
    Do("other", 0, ErrorResetCallback(ClearTimeout(St, t)))

StartDelayFires ==
  \E t \in TimersOf("startDelay") :
    Do("other", 0, StartDelayCallback(ClearTimeout(St, t), t))

\* the 60 s ceiling expires: long after the MediaRecorder events that were
\* queued when it was armed have been delivered
CeilingFires ==
  \E t \in TimersOf("ceiling") :
    /\ recorders[t.rec].events = << >>
    /\ Do("ceiling", 0, CeilingCallback(ClearTimeout(St, t), t))

GraceFires ==
  \E t \in TimersOf("grace") :
    Do("graceStop", 0, handleStopRecording(ClearTimeout(St, t), t.env))

\* the listeners of a recorder that no component created: onStop keeps the
\* recording it was handed, the others do nothing
KeepBlob(s, audioBlob) ==
  [s EXCEPT !.audioDispatches = Append(@, audioBlob.gen)]

\* handleDataAvailable with a chunk of positive size: the recorder's
\* audioChunks.push, then the component's onDataAvailable
PushChunk(s, r) ==
  LET s1 == [s EXCEPT !.recorders[r].audioChunks =
                        Append(@, s.recorders[r].heard),
                      !.recorders[r].made = @ + 1]
  IN IF Wired(s, r)
       THEN [s1 EXCEPT !.audioChunksRef = Append(@, s.recorders[r].heard)]
       ELSE s1

StartKeepsChunks(s, r) ==
  [s EXCEPT !.recorders[r].made = 0,
            !.recorders[r].heard = Head(s.recorders[r].starts),
            !.recorders[r].starts = Tail(@)]

\* handleRecordingStart: "audioChunks.length = 0" empties the array in place
handleRecordingStart(s, r) ==
  [s EXCEPT !.recorders[r].audioChunks = << >>,
            !.recorders[r].made = 0,
            !.recorders[r].heard = Head(s.recorders[r].starts),
            !.recorders[r].starts = Tail(@)]

\* a timeslice of the MediaRecorder elapses: ondataavailable with a chunk
TimesliceElapses ==
  \E r \in RecIds :
    /\ recorders[r].mediaRecorder = "recording"
    /\ recorders[r].events = << >>
    /\ Len(recorders[r].audioChunks) < MaxChunks
    /\ Wired(St, r) => Len(audioChunksRef) < MaxChunks
    /\ Do("other", 0, PushChunk(St, r))

\* the next queued event of a MediaRecorder is delivered
MediaRecorderEvent ==
  \E r \in RecIds, size \in {0, 1} :
    /\ recorders[r].events # << >>
    /\ LET e == Head(recorders[r].events)
           s1 == [St EXCEPT !.recorders[r].events = Tail(@)]
           g == recorders[r].heard
       IN /\ (e # "dataavailable" => size = 0)
          /\ (size = 1 => /\ Len(recorders[r].audioChunks) < MaxChunks
                          /\ Wired(St, r) => Len(audioChunksRef) < MaxChunks)
          /\ Do("other", 0,
                Forget(
                CASE e = "start" ->
                       IF Wired(St, r)
                         THEN onStart(handleRecordingStart(s1, r), r)
                         ELSE handleRecordingStart(s1, r)
                  [] e = "dataavailable" ->
                       IF size > 0 THEN PushChunk(s1, r) ELSE s1
                  [] e = "stop" ->
                       IF Wired(St, r)
                         THEN onStop(s1, r,
                                     [chunks |-> recorders[r].audioChunks,
                                      gen |-> g])
                         ELSE KeepBlob(s1, [chunks |-> recorders[r].audioChunks,
                                            gen |-> g])
                  [] OTHER -> IF Wired(St, r) THEN onError(s1, r) ELSE s1,
                r))

\* the sequence without its n-th element
Without(seq, n) == SubSeq(seq, 1, n - 1) \o SubSeq(seq, n + 1, Len(seq))

\* the listeners of a MediaRecorder that was let go of, on their own array
OrphanHears(o, e, size) ==
  LET rest == [o EXCEPT !.events = Tail(@)]
  IN CASE e = "start" ->
            [rest EXCEPT !.audioChunks = << >>, !.made = 0,
                         !.heard = Head(o.starts), !.starts = Tail(@)]
       [] e = "dataavailable" /\ size > 0 ->
            [rest EXCEPT !.audioChunks = Append(@, o.heard), !.made = @ + 1]
       [] OTHER -> rest

\* the next queued event of a MediaRecorder that was let go of is delivered
OrphanEvent ==
  \E r \in RecIds, size \in {0, 1} :
    \E n \in DOMAIN recorders[r].orphans :
      LET o == recorders[r].orphans[n]
          e == Head(o.events)
          o1 == OrphanHears(o, e, size)
          s1 == [St EXCEPT !.recorders[r].orphans =
                             IF o1.events = << >> THEN Without(@, n)
                             ELSE [@ EXCEPT ![n] = o1]]
          audioBlob == [chunks |-> o.audioChunks, gen |-> o.heard]
      IN /\ (e # "dataavailable" => size = 0)
         /\ Do("other", 0,
               CASE e = "start" -> IF Wired(St, r) THEN onStart(s1, r) ELSE s1
                 [] e = "dataavailable" ->
                      IF size > 0 /\ Wired(St, r)
                        THEN [s1 EXCEPT !.audioChunksRef = Append(@, o.heard)]
                        ELSE s1
                 [] e = "stop" -> IF Wired(St, r) THEN onStop(s1, r, audioBlob)
                                  ELSE KeepBlob(s1, audioBlob)
                 [] OTHER -> IF Wired(St, r) THEN onError(s1, r) ELSE s1)

\* the MediaRecorder fails while recording
MediaRecorderFails ==
  \E r \in RecIds :
    /\ recorders[r].mediaRecorder = "recording"
    /\ Do("other", 0,
          [St EXCEPT !.recorders[r].mediaRecorder = "inactive",
                     !.recorders[r].events = Append(@, "error")])

\* VoiceControls: the microphone button (disabled while processing)
ClickMicrophone ==
  /\ voiceState # "processing"
  /\ IF voiceState = "recording"
       THEN Command("endRecording", handleStopRecording(St, Env(St)))
       ELSE Command("beginRecording", handleStartRecording(St, Env(St)))

\* VoiceControls: the text input (disabled while recording or processing)
SendText ==
  \E message \in Texts :
    /\ voiceState \notin {"recording", "processing"}
    /\ Command(IF WhitespaceOnly(message) THEN "submitBlank"
               ELSE "submitText",
               IF ~IsBlank(message)
                 THEN handleSendMessage(St, Env(St), message)
                 ELSE St)

\* SilenceSettings: the slider
ChangeSilenceDuration ==
  \E d \in Durations :
    /\ d # silenceDuration
    /\ Command("other", [St EXCEPT !.silenceDuration = d])

----------------------------------------------------------------------------
(* The detector on its own: any caller, any samples *)

CallInitialize ==
  \E i \in DetIds :
    /\ ~detectors[i].isInitialized
    /\ Do("other", 0, Await(St, [NoAwait EXCEPT !.kind = "sdInit",
                                                !.det = i]))

CallStart == \E i \in DetIds : Do("sdStart", 0, SdStart(St, i))

CallStop == \E i \in DetIds : Do("other", 0, SdStop(St, i))

CallCleanup == \E i \in DetIds : Do("sdCleanup", 0, SdCleanup(St, i))

\* the commands and the recordings a session is followed for
Followed(nCommands, nRecordings) ==
  [commands |-> nCommands, recordings |-> nRecordings]

\* the component before its first render, no service created
InitServicesFree ==
  /\ now = 0
  /\ timers = EmptyBag
  /\ awaiting = EmptyBag
  /\ recorders = << >>
  /\ detectors = << >>
  /\ sdHist = << >>
  /\ messages = << >>
  /\ voiceState = "idle"
  /\ errorMessage = "null"
  /\ recorder = 0
  /\ isRecording = FALSE
  /\ silenceDetected = FALSE
  /\ silenceDuration = LongDuration
  /\ recordingTimeoutRef = NoTimer
  /\ silenceTimeoutRef = NoTimer
  /\ audioChunksRef = << >>
  /\ silenceDetectorRef = 0
  /\ nextId = 1
  /\ recordings = 0
  /\ audioDispatches = << >>
  /\ hook = NoHook
  /\ commands = 0
  /\ lastEvent = NoEvent

InitComponent ==
  /\ followed = Followed(MaxCommands, MaxRecordings)
  /\ now = 0
  /\ timers = EmptyBag
  /\ awaiting = EmptyBag
  /\ recorders = << >>
  /\ messages = << >>
  /\ voiceState = "idle"
  /\ errorMessage = "null"
  /\ recorder = 0
  /\ isRecording = FALSE
  /\ silenceDetected = FALSE
  /\ silenceDuration = LongDuration
  /\ recordingTimeoutRef = NoTimer
  /\ silenceTimeoutRef = NoTimer
  /\ audioChunksRef = << >>
  /\ silenceDetectorRef = 0
  /\ nextId = 1
  /\ recordings = 0
  /\ audioDispatches = << >>
  /\ hook = NoHook
  /\ commands = 0
  /\ lastEvent = NoEvent

InitDetector ==
  /\ InitComponent
  /\ apiKey = "key"
  /\ browser = [recording |-> TRUE, speech |-> TRUE]
  /\ \E th \in {0, DefaultSilenceThreshold}, du \in Durations :
       /\ detectors = << NewDetector(th, du, NoEnv) >>
       /\ sdHist = << NewHist >>

NextDetector ==
  \/ CallInitialize
  \/ CallStart
  \/ CallStop
  \/ CallCleanup
  \/ GetUserMediaSettles
  \/ AdvanceTime
  \/ SampleTick
  \/ SilenceTimerFires

SpecDetector == InitDetector /\ [][NextDetector]_vars

----------------------------------------------------------------------------
(* The two audio services on their own: one recorder and one detector that
   no component created, any caller, no sample taken *)

\* initialize(), by a caller that has no MediaRecorder yet
CallRecInitialize ==
  \E r \in RecIds :
    /\ RecGetState(St, r) = "null"
    /\ Do("other", 0, Await(St, [NoAwait EXCEPT !.kind = "recInit",
                                                !.rec = r]))

CallRecStart == \E r \in RecIds : Do("other", 0, RecStart(St, r))

CallRecStop == \E r \in RecIds : Do("recStop", 0, RecStop(St, r))

CallRecCleanup == \E r \in RecIds : Do("recCleanup", 0, RecCleanup(St, r))

\* getUserMedia settles for an initialize() that the caller awaited
RecInitSettles ==
  \E k \in AwaitingOf({"recInit"}), ok \in BOOLEAN :
    Do("other", 0, IF ok THEN RecInitializeOk(Resume(St, k), k.rec)
                   ELSE Resume(St, k))

InitServices ==
  /\ followed = Followed(MaxCommands, MaxRecordings)
  /\ now = 0
  /\ timers = EmptyBag
  /\ awaiting = EmptyBag
  /\ detectors = << NewDetector(DefaultSilenceThreshold, LongDuration,
                                NoEnv) >>
  /\ sdHist = << NewHist >>
  /\ recorders = << NewRecorder(NoEnv) >>
  /\ messages = << >>
  /\ voiceState = "idle"
  /\ errorMessage = "null"
  /\ recorder = 0
  /\ isRecording = FALSE
  /\ silenceDetected = FALSE
  /\ silenceDuration = LongDuration
  /\ recordingTimeoutRef = NoTimer
  /\ silenceTimeoutRef = NoTimer
  /\ audioChunksRef = << >>
  /\ silenceDetectorRef = 0
  /\ nextId = 1
  /\ recordings = 0
  /\ audioDispatches = << >>
  /\ hook = NoHook
  /\ commands = 0
  /\ lastEvent = NoEvent
  /\ apiKey = ""
  /\ browser = [recording |-> TRUE, speech |-> TRUE]

NextServices ==
  \/ CallInitialize
  \/ CallStart
  \/ CallStop
  \/ CallCleanup
  \/ CallRecInitialize
  \/ CallRecStart
  \/ CallRecStop
  \/ CallRecCleanup
  \/ GetUserMediaSettles
  \/ RecInitSettles
  \/ MediaRecorderEvent
  \/ TimesliceElapses

SpecServices == InitServices /\ [][NextServices]_vars

----------------------------------------------------------------------------
(* The two detectors side by side: the same calls, the same samples, the
   same clock *)

Refactored == 1
Original == 2

Both(Op(_, _), s) == Op(Op(s, Refactored), Original)

\* start() on both; initialized, neither suspends at "await initialize()"
TwinStart ==
  /\ \A i \in DetIds : detectors[i].isInitialized
  /\ Do("other", 0, Both(SdStartResume, St))

\* stop() on both
TwinStop == \E stopped \in {Both(SdStop, St)} : Do("other", 0, stopped)

TwinSample ==
  \E level \in Levels :
    /\ \A i \in DetIds : detectors[i].tickDue
    /\ Do("other", 0,
          OrigInterval(SdInterval(St, Refactored, level), Original, level))

TwinTimerFires ==
  \E t \in SilenceTimers :
    /\ t.due <= now
    /\ Do("other", 0,
          IF t.det = Original
            THEN OrigTimerCallback(ClearTimeout(St, t), t)
            ELSE SilenceTimerCallback(ClearTimeout(St, t), t))

\* both detectors initialized, with the same options
InitTwin ==
  /\ InitComponent
  /\ apiKey = "key"
  /\ browser = [recording |-> TRUE, speech |-> TRUE]
  /\ \E du \in Durations :
       LET d == [NewDetector(DefaultSilenceThreshold, du, NoEnv)
                   EXCEPT !.stream = TRUE, !.analyzer = TRUE,
                          !.isInitialized = TRUE]
       IN detectors = << d, d >>
  /\ sdHist = << NewHist, NewHist >>

NextTwin ==
  \/ TwinStart
  \/ TwinStop
  \/ AdvanceTime
  \/ TwinSample
  \/ TwinTimerFires

SpecTwin == InitTwin /\ [][NextTwin]_vars

----------------------------------------------------------------------------
(* The VoiceChat built on hooks, with ControlPanel enabled *)

MaxHookClicks == 5
MaxHookRecordings == 2

\* ControlPanel: handleMicrophoneClick (the button is disabled while
\* processing)
HookClickMicrophone ==
  /\ voiceState # "processing"
  /\ IF voiceState = "recording"
       THEN Command("endRecording", VoiceChatStopRecording(St))
       ELSE Command("beginRecording", VoiceChatStartRecording(St))

\* getUserMedia settles for an initialize() one of the hooks awaits
HookGetUserMediaSettles ==
  \E k \in AwaitingOf({"hookInitRecorder", "hookInitDetector"}),
     ok \in BOOLEAN :
    Do("other", 0,
       IF k.kind = "hookInitRecorder"
         THEN HookRecorderReady(Resume(St, k), k, ok)
         ELSE HookDetectorReady(Resume(St, k), k, ok))

\* the next queued event of the hook's MediaRecorder is delivered
HookRecorderEvent ==
  \E r \in RecIds, size \in {0, 1} :
    /\ recorders[r].events # << >>
    /\ LET e == Head(recorders[r].events)
           s1 == [St EXCEPT !.recorders[r].events = Tail(@)]
           audioBlob == [chunks |-> recorders[r].audioChunks,
                         gen |-> recorders[r].heard]
       IN /\ (e # "dataavailable" => size = 0)
          /\ (size = 1 => Len(recorders[r].audioChunks) < MaxChunks)
          /\ Do("other", 0,
                HookListeners(
                  CASE e = "start" -> handleRecordingStart(s1, r)
                    [] e = "dataavailable" /\ size > 0 -> PushChunk(s1, r)
                    [] OTHER -> s1,
                  r, e, audioBlob))

\* openAI.sendAudioMessage settles
HookBackendSettles ==
  \E k \in AwaitingOf({"sendAudio"}), ok \in BOOLEAN :
    Do("other", 0, AfterSendAudio(Resume(St, k), k, ok))

\* the playback of the reply ends, played or not
HookPlaybackEnds ==
  \E k \in AwaitingOf({"hookPlay"}) :
    Do("other", 0, AfterPlayback(Resume(St, k)))

InitHooks ==
  /\ followed = Followed(MaxHookClicks, MaxHookRecordings)
  /\ now = 0
  /\ timers = EmptyBag
  /\ awaiting = EmptyBag
  /\ recorders = << >>
  /\ detectors = << >>
  /\ sdHist = << >>
  /\ messages = << Welcome >>
  /\ voiceState = "idle"
  /\ errorMessage = "null"
  /\ recorder = 0
  /\ isRecording = FALSE
  /\ silenceDetected = FALSE
  /\ silenceDuration = LongDuration
  /\ recordingTimeoutRef = NoTimer
  /\ silenceTimeoutRef = NoTimer
  /\ audioChunksRef = << >>
  /\ silenceDetectorRef = 0
  /\ nextId = 1
  /\ recordings = 0
  /\ audioDispatches = << >>
  /\ hook = NoHook
  /\ commands = 0
  /\ lastEvent = NoEvent
  /\ apiKey = "key"
  /\ browser = [recording |-> TRUE, speech |-> TRUE]

NextHooks ==
  \/ HookClickMicrophone
  \/ HookGetUserMediaSettles
  \/ HookRecorderEvent
  \/ TimesliceElapses
  \/ HookBackendSettles
  \/ HookPlaybackEnds

SpecHooks == InitHooks /\ [][NextHooks]_vars

----------------------------------------------------------------------------
(* The recorder on its own, under a caller that awaits initialize() and
   start() as the component and the hook useAudioRecorder do *)

CallRecAwaited ==
  /\ AwaitingOf({"recInit", "recStart"}) = {}
  /\ (CallRecInitialize \/ CallRecStart)

NextRecorder ==
  \/ CallRecAwaited
  \/ CallRecStop
  \/ CallRecCleanup
  \/ GetUserMediaSettles
  \/ RecInitSettles
  \/ MediaRecorderEvent
  \/ OrphanEvent
  \/ TimesliceElapses

SpecRecorder == InitServices /\ [][NextRecorder]_vars

----------------------------------------------------------------------------
(* The hook useVoiceState on its own: any caller, any calls *)

VoiceStates == {"idle", "recording", "processing", "speaking", "error"}

\* the messages a caller passes to setError
HookMessages == {"Microphone unavailable", "Request failed"}

\* setState(newState)
setState(s, newState) ==
  IF newState # "error"
    THEN [s EXCEPT !.voiceState = newState, !.errorMessage = "null"]
    ELSE [s EXCEPT !.voiceState = newState]

\* setError(message)
setError(s, message) ==
  [s EXCEPT !.errorMessage = message, !.voiceState = "error"]

\* clearError()
clearError(s) == [s EXCEPT !.errorMessage = "null", !.voiceState = "idle"]

\* a caller calls the hook: the calls are counted
HookCall(name, s) ==
  /\ commands < MaxHookCalls
  /\ Commit([s EXCEPT !.commands = @ + 1,
                      !.lastEvent = Event(name, 0, St, s)])

CallSetState ==
  \E newState \in VoiceStates : HookCall("setState", setState(St, newState))

CallSetError ==
  \E message \in HookMessages : HookCall("setError", setError(St, message))

CallClearError == HookCall("clearError", clearError(St))

\* useVoiceState(): initialState defaults to "idle", error to null
InitVoiceState ==
  /\ InitComponent
  /\ detectors = << >>
  /\ sdHist = << >>
  /\ apiKey = "key"
  /\ browser = [recording |-> TRUE, speech |-> TRUE]

NextVoiceState ==
  \/ CallSetState
  \/ CallSetError
  \/ CallClearError

SpecVoiceState == InitVoiceState /\ [][NextVoiceState]_vars

----------------------------------------------------------------------------
(* The component, driven through VoiceControls and SilenceSettings *)

\* home.tsx passes a non-empty apiKey; the browser records, and may or may
\* not have speech synthesis
Init ==
  /\ InitComponent
  /\ detectors = << >>
  /\ sdHist = << >>
  /\ apiKey = "key"
  /\ browser \in [recording : {TRUE}, speech : BOOLEAN]

Next ==
  \/ ClickMicrophone
  \/ SendText
  \/ ChangeSilenceDuration
  \/ GetUserMediaSettles
  \/ TranscriptionSettles
  \/ BackendSettles
  \/ PlayDelayFires
  \/ AudioEnds
  \/ AudioAborts
  \/ SimulatedWaitFires
  \/ ErrorResetFires
  \/ StartDelayFires
  \/ CeilingFires
  \/ GraceFires
  \/ TimesliceElapses
  \/ MediaRecorderEvent
  \/ MediaRecorderFails
  \/ AdvanceTime
  \/ SampleTick
  \/ SilenceTimerFires

Spec == Init /\ [][Next]_vars

----------------------------------------------------------------------------
(* The component while the user keeps speaking: the detector samples no
   silence. What happens without the user is bound to happen *)

\* the devices report, the requests settle, due timers expire, queued
\* recorder events are delivered, a playing audio element ends or fails. A
\* recorder failure is not among them: no recorder is bound to fail
Unprompted ==
  \/ GetUserMediaSettles
  \/ TranscriptionSettles
  \/ BackendSettles
  \/ PlayDelayFires
  \/ AudioEnds
  \/ AudioAborts
  \/ SimulatedWaitFires
  \/ ErrorResetFires
  \/ StartDelayFires
  \/ CeilingFires
  \/ TimesliceElapses
  \/ MediaRecorderEvent

\* the component as any parent may mount it: apiKey defaults to "", and the
\* browser may lack MediaRecorder
InitLive ==
  /\ InitComponent
  /\ detectors = << >>
  /\ sdHist = << >>
  /\ apiKey \in {"", "key"}
  /\ browser \in [recording : BOOLEAN, speech : BOOLEAN]

NextLive ==
  \/ ClickMicrophone
  \/ SendText
  \/ MediaRecorderFails
  \/ Unprompted

\* the browser's event loop runs whatever is due; the user is under no
\* obligation to act
SpecLive == InitLive /\ [][NextLive]_vars /\ WF_vars(Unprompted)

----------------------------------------------------------------------------
(* The component under microphone clicks alone, followed for more clicks *)

MaxClicks == 3

InitClicks ==
  /\ InitServicesFree
  /\ followed = Followed(MaxClicks, MaxRecordings)
  /\ apiKey = "key"
  /\ browser \in [recording : {TRUE}, speech : BOOLEAN]

NextClicks ==
  \/ ClickMicrophone
  \/ Unprompted

SpecClicks == InitClicks /\ [][NextClicks]_vars

----------------------------------------------------------------------------
(* The component over two recordings: microphone clicks, samples, recorder
   failures; no request of a turn is answered *)

MaxSuccessiveRecordings == 2

InitSuccessive ==
  /\ InitServicesFree
  /\ followed = Followed(MaxCommands, MaxSuccessiveRecordings)
  /\ apiKey = "key"
  /\ browser = [recording |-> TRUE, speech |-> TRUE]

NextSuccessive ==
  \/ ClickMicrophone
  \/ GetUserMediaSettles
  \/ StartDelayFires
  \/ MediaRecorderEvent
  \/ MediaRecorderFails
  \/ ErrorResetFires
  \/ CeilingFires
  \/ GraceFires
  \/ AdvanceTime
  \/ SampleTick
  \/ SilenceTimerFires

SpecSuccessive == InitSuccessive /\ [][NextSuccessive]_vars

----------------------------------------------------------------------------
(* Claims about the detector *)

\* C1: between a start() and the following stop(), onSilenceDetected is
\* invoked at most once
C1_AtMostOneSilenceEdgePerRun ==
  \A i \in DetIds : sdHist[i].silenceEdges <= 1

\* C2: with silenceDuration > 0, onSilenceDetected never fires from a timer
\* that was armed before a sample at or above the threshold was taken
C2_NoEdgeFromInterruptedSilence ==
  \A i \in DetIds : ~sdHist[i].interrupted

\* C8: onSpeechDetected has fired exactly once for each transition from a
\* below-threshold sample to an at-or-above-threshold sample of the run
C8_SpeechEdgePerQuietToLoud ==
  \A i \in DetIds : sdHist[i].speechEdges = sdHist[i].quietToLoud

\* C9: after stop() no edge is delivered until the next start()
C9_NoEdgeWhileStopped ==
  \A i \in DetIds : sdHist[i].edgesWhileStopped = 0

----------------------------------------------------------------------------
(* Claims about the component *)

\* a reply's playback has been started and has not signalled its end
PlaybackPending ==
  \/ TimersOf("playDelay") # {}
  \/ TimersOf("simulated") # {}
  \/ AwaitingOf({"playing"}) # {}

\* C3: at most one backend request is outstanding, and none is outstanding
\* while the reply of an earlier turn is still being spoken
C3_OneDispatchOutstanding ==
  /\ Cardinality(Sends(St)) <= 1
  /\ Sends(St) # {} => ~PlaybackPending

\* C4: a beginRecording or submitText command given in Recording, Processing
\* or Speaking changes neither the session state nor the history, and starts
\* neither a capture nor a backend request
C4_CommandWhileBusyIsNoOp ==
  /\ lastEvent.name \in {"beginRecording", "submitText"}
  /\ lastEvent.before \in {"recording", "processing", "speaking"}
  => /\ lastEvent.after = lastEvent.before
     /\ ~lastEvent.history
     /\ ~lastEvent.capture
     /\ ~lastEvent.dispatch

\* C5: a beginRecording command given in Error is accepted: it starts the
\* capture (or the initialization that leads to it)
C5_BeginRecordingAcceptedInError ==
  lastEvent.name = "beginRecording" /\ lastEvent.before = "error"
  => lastEvent.capture

\* C6: no recording's audio is handed to processAudioAndGetResponse twice
C6_RecordingDispatchedOnce ==
  \A i, j \in DOMAIN audioDispatches :
    i # j => audioDispatches[i] # audioDispatches[j]

\* C7: a silence edge, or the delayed handleStopRecording it schedules, that
\* arrives when the session state is not Recording changes no state, stops
\* no capture and dispatches nothing
C7_LateSilenceEdgeIsNoOp ==
  /\ lastEvent.name \in {"silenceEdge", "graceStop"}
  /\ lastEvent.before # "recording"
  => /\ lastEvent.after = lastEvent.before
     /\ ~lastEvent.history
     /\ ~lastEvent.capture
     /\ ~lastEvent.dispatch

\* C10: the end-of-playback signal of a reply moves the session state only
\* when the state is Speaking for that reply
C10_DoneOnlyForSpokenReply ==
  lastEvent.name = "done" /\ lastEvent.after # lastEvent.before
  => ~lastEvent.stale

----------------------------------------------------------------------------
(* Claims about playback and errors *)

\* C11: once the session is Speaking it eventually returns to Idle, whether
\* the audio ends, fails to start or fails midway, or there is no audio
C11_SpeakingLeadsToIdle == (voiceState = "speaking") ~> (voiceState = "idle")

\* the audio of the reply is playing; its text is being spoken
Playing(s, reply) ==
  \E k \in BagToSet(s.awaiting) : k.kind = "playing" /\ k.reply = reply

Spoken(s, reply) ==
  \E k \in BagToSet(s.awaiting) : k.kind = "speaking" /\ k.reply = reply

\* C12: when the audio of a reply fails to play, in a browser with speech
\* synthesis, the text of the reply is spoken instead
C12_FailedAudioIsSpoken ==
  [][\A t \in TimersOf("playDelay") :
       (t \notin BagToSet(timers') /\ ~Playing(St', t.reply) /\ browser.speech)
         => Spoken(St', t.reply)]_vars

ErrorResetExpires ==
  CopiesIn(ErrorReset, timers') < CopiesIn(ErrorReset, timers)

\* C14: the reset timer of an error does not put a session that has since
\* moved on to Processing or Speaking back to Idle
C14_ResetTimerSparesLaterTurn ==
  [][(ErrorResetExpires /\ voiceState \in {"processing", "speaking"})
       => voiceState' = voiceState]_vars

\* C15: the ceiling timer of one recording never stops a later recording
C15_CeilingStopsOwnRecording ==
  [][\A t \in TimersOf("ceiling") :
       (/\ lastEvent'.name = "ceiling"
        /\ CopiesIn(t, timers') < CopiesIn(t, timers)
        /\ t.gen # recorders[t.rec].gen)
         => recorders'[t.rec].mediaRecorder = recorders[t.rec].mediaRecorder]_vars

\* the user entry of a turn carries the failure that is displayed
MarkedFailed(s, id) ==
  \E i \in DOMAIN s.messages :
    /\ s.messages[i].id = id
    /\ s.messages[i].sender = "user"
    /\ s.messages[i].status = "error"
    /\ s.messages[i].errorMessage = s.errorMessage

C18_BlankTranscriptionFailsTurn ==
  [][lastEvent'.name = "transcribedBlank"
       => /\ voiceState' = "error"
          /\ Len(messages') = Len(messages)
          /\ \E k \in AwaitingOf({"transcribeAudio"}) :
               /\ k \notin Sends(St')
               /\ MarkedFailed(St', k.msgId)
               /\ \A r \in Sends(St') : r.msgId # k.msgId]_vars

C18_TranscriptionWasBlank ==
  /\ lastEvent.name = "transcribedBlank"
  /\ lastEvent.before = "processing"
  /\ lastEvent.after = "error"
  /\ AwaitingOf({"sendAudio"}) = {}

\* C19: a text that is empty or only whitespace is rejected before it has
\* any effect: state, error message, history and requests stay as they were
C19_BlankTextHasNoEffect ==
  [][lastEvent'.name = "submitBlank"
       => UNCHANGED <<voiceState, errorMessage, messages, awaiting, timers>>]_vars

C19_BlankTextSubmitted ==
  /\ lastEvent.name = "submitBlank"
  /\ commands > 0

\* C20: when the audio of a recording is dispatched, no recorder is still
\* capturing
C20_DispatchAfterCaptureEnded ==
  [][Len(audioDispatches') > Len(audioDispatches)
       => Capturing(St') = {}]_vars

----------------------------------------------------------------------------
(* Claims about the order within a turn and about the history *)

\* the replies whose playback has been started and has not ended
PlaybackOf(s) ==
  {t.reply : t \in {u \in BagToSet(s.timers) :
                      u.kind \in {"playDelay", "simulated"}}}
    \cup {k.reply : k \in {a \in BagToSet(s.awaiting) :
                             a.kind \in {"playing", "speaking"}}}

\* the reply is in the history
Listed(s, reply) ==
  \E i \in DOMAIN s.messages :
    s.messages[i].id = reply /\ s.messages[i].sender = "ai"

\* the user entry is in the history and no longer pending
Finalized(s, id) ==
  \E i \in DOMAIN s.messages :
    /\ s.messages[i].id = id
    /\ s.messages[i].sender = "user"
    /\ s.messages[i].status # "sending"

\* the request of the turn of entry id completes in this step
Completes(id) ==
  \E k \in AwaitingOf({"sendAudio", "sendText"}) :
    k.msgId = id /\ k \notin BagToSet(awaiting')

\* a request completes in this step and the user entry of its turn is final
TurnFinalized ==
  \E k \in AwaitingOf({"sendAudio", "sendText"}) :
    Completes(k.msgId) /\ Finalized(St', k.msgId)

\* C21: within a turn the request completes before the history changes, and
\* the history changes before playback starts and before Speaking
C21_TurnOrder ==
  [][/\ \A i \in DOMAIN messages :
          (messages[i].status = "sending" /\ messages'[i].status = "sent")
            => Completes(messages[i].id)
     /\ \A i \in DOMAIN messages' :
          (i > Len(messages) /\ messages'[i].sender = "ai") => TurnFinalized
     /\ \A r \in PlaybackOf(St') \ PlaybackOf(St) : Listed(St', r)
     /\ (voiceState' = "speaking" /\ voiceState # "speaking")
          => /\ TurnFinalized
             /\ Len(messages') > Len(messages)
             /\ Listed(St', messages'[Len(messages')].id)]_vars

C21_ReplyListedThenPlayed ==
  /\ voiceState = "speaking"
  /\ PlaybackOf(St) # {}
  /\ \A r \in PlaybackOf(St) : Listed(St, r)

\* C22: whenever the state is Error an error message is present
C22_ErrorHasMessage == voiceState = "error" => errorMessage # "null"

----------------------------------------------------------------------------
(* Claims about the devices *)

\* the detectors that hold a microphone stream
HoldingStream(s) ==
  {i \in 1..Len(s.detectors) :
     s.detectors[i].isInitialized /\ s.detectors[i].stream}

\* C24: at most one recorder is recording and at most one initialized silence
\* detector holds a microphone stream
C24_OneHolderPerDevice ==
  /\ Cardinality(Capturing(St)) <= 1
  /\ Cardinality(HoldingStream(St)) <= 1

----------------------------------------------------------------------------
(* Claims about the services' cleanup and stop *)

\* getState() = null, and nothing of the recorder is held
RecorderReleased(s, r) ==
  /\ RecGetState(s, r) = "null"
  /\ ~s.recorders[r].stream

\* the detector is not running and is uninitialized
DetectorReleased(s, i) ==
  /\ ~s.detectors[i].isRunning
  /\ ~s.detectors[i].checkIntervalTimer
  /\ ~s.detectors[i].isInitialized
  /\ ~s.detectors[i].stream

\* C25: right after cleanup() of the recorder, getState() is null, and right
\* after cleanup() of the detector, the detector is not running and is
\* uninitialized, whether or not a session was active; calling cleanup()
\* again in that state changes nothing.
C25_CleanupIsIdempotent ==
  /\ lastEvent.name = "recCleanup" =>
        \A r \in RecIds : /\ RecorderReleased(St, r)
                          /\ RecCleanup(St, r) = St
  /\ lastEvent.name = "sdCleanup" =>
        \A i \in DetIds : /\ DetectorReleased(St, i)
                          /\ SdCleanup(St, i) = St

\* cleanup() ended a recording that was under way
C25_CleanupEndedRecording ==
  /\ lastEvent.name = "recCleanup"
  /\ \E r \in RecIds : Len(recorders[r].events) >= 2
  /\ \E i \in DetIds : detectors[i].isRunning


\* the completion events of the recorder that are still to be delivered
PendingStops(s, r) ==
  Cardinality({n \in DOMAIN s.recorders[r].events :
                 s.recorders[r].events[n] = "stop"})

\* the recordings that were started and have not been stopped
Running(s, r) == IF RecGetState(s, r) = "recording" THEN 1 ELSE 0

\* what stop() does to the recorder r in one step
StopsOnce(r) ==
  IF Running(St, r) = 1
    THEN /\ Running(St', r) = 0
         /\ PendingStops(St', r) = PendingStops(St, r) + 1
         /\ audioDispatches' = audioDispatches
    ELSE /\ recorders' = recorders
         /\ audioDispatches' = audioDispatches

\* C26: stop() on a recording under way queues one completion event, and
\* stop() in any other state, before or after that event is delivered,
\* changes nothing; so the recordings handed to onStop, those whose
\* completion event is pending and the one under way never exceed the
\* recordings started: no recording is handed to onStop twice.
C26_OneStopPerStart ==
  /\ [](\A r \in RecIds :
          Len(audioDispatches) + PendingStops(St, r) + Running(St, r)
            <= recordings)
  /\ [][lastEvent'.name = "recStop" => \A r \in RecIds : StopsOnce(r)]_vars

\* stop() was called after the completion event had been delivered
C26_StoppedAgainAfterCompletion ==
  /\ lastEvent.name = "recStop"
  /\ recordings = 1
  /\ Len(audioDispatches) = 1
  /\ \E r \in RecIds : /\ RecGetState(St, r) = "inactive"
                        /\ recorders[r].events = << >>

----------------------------------------------------------------------------
(* Claims about the detector's scenarios *)

\* the run of detector i so far is loud samples followed by quiet samples only
LoudThenQuiet(i) ==
  /\ detectors[i].isRunning
  /\ detectors[i].silenceThreshold = DefaultSilenceThreshold
  /\ sdHist[i].quietToLoud = 0
  /\ ~sdHist[i].interrupted
  /\ sdHist[i].edgesWhileStopped = 0

\* C27: with the default threshold and a silenceDuration of LongDuration
\* sampling periods, a run of loud samples followed by consecutive quiet
\* samples produces onSilenceDetected exactly once, and not before the quiet
\* has lasted LongDuration periods.
C27_OneEdgeAfterSustainedQuiet ==
  \A i \in DetIds :
    LoudThenQuiet(i) /\ detectors[i].silenceDuration = LongDuration =>
      /\ sdHist[i].silenceEdges <= 1
      /\ lastEvent.name = "silenceEdge" =>
            now > sdHist[i].lastLoudAt + LongDuration


\* the silence timers that detector i has pending
SilenceTimersOf(i) == {t \in SilenceTimers : t.det = i}

\* C28: with silenceDuration = 0, a running detector has fired
\* onSilenceDetected as soon as a sample of the run was below the threshold,
\* without arming a timer, and the further quiet samples of the run fire
\* nothing: the run has one edge.
C28_ImmediateEdgeOnce ==
  \A i \in DetIds :
    detectors[i].isRunning /\ detectors[i].silenceDuration = 0 =>
      /\ SilenceTimersOf(i) = {}
      /\ sdHist[i].lastSample = "quiet" => sdHist[i].silenceEdges >= 1
      /\ sdHist[i].silenceEdges <= 1

----------------------------------------------------------------------------
(* Claims about playback failures and the context of a request *)

\* the step plays a reply: it puts the assistant's reply in the history and
\* runs the playback block, or it runs play() on the audio element
PlaybackStep ==
  \/ /\ Len(messages') = Len(messages) + 1
     /\ messages'[Len(messages')].sender = "ai"
  \/ \E t \in TimersOf("playDelay") : CopiesIn(t, timers') < CopiesIn(t, timers)

\* the step surfaces no error of the session
NoSessionError ==
  /\ voiceState' # "error"
  /\ errorMessage' = errorMessage
  /\ \A j \in DOMAIN messages :
       messages'[j].status = "error" => messages[j].status = "error"

\* C29: a step that plays a reply, whatever becomes of the playback (no
\* audio, audio that cannot be decoded or played, speech output that fails
\* or is unavailable), does not move the session to Error, does not set an
\* error message and marks no entry of the history as failed.
C29_PlaybackFailureNotSurfaced ==
  [][PlaybackStep => NoSessionError]_vars


\* the requests that the step sends to the backend with a context
Dispatched ==
  {k \in BagToSet(awaiting') :
     /\ k.kind \in {"transcribeAudio", "sendText"}
     /\ CopiesIn(k, awaiting') > CopiesIn(k, awaiting)}

\* the entries of the history that are neither being sent nor failed
Settled(msgs) ==
  SelectSeq(msgs, LAMBDA m : m.status \notin {"sending", "error"})

\* C30: the context of a request, from the recording or from the text input,
\* is the entries that the history held before the request and that are
\* neither being sent nor failed, in the order of the history.
C30_ContextIsSettledHistory ==
  [][\A k \in Dispatched : k.context = Settled(messages)]_vars

----------------------------------------------------------------------------
(* Claims about the end of a recording *)

\* C31: right after a manual endRecording in Recording the silence detector
\* is stopped and neither the grace timer nor the ceiling timer is pending,
\* so that none of them can fire afterwards; the recorder is no longer
\* recording, so that its completion event takes the session to Processing.
C31_ManualStopCancelsTimers ==
  lastEvent.name = "endRecording" /\ lastEvent.before = "recording" =>
    /\ \A i \in DetIds : ~detectors[i].isRunning
    /\ TimersOf("grace") = {}
    /\ TimersOf("ceiling") = {}
    /\ Capturing(St) = {}


\* C32: a grace timer does not outlive its recording: when the recorder
\* starts a recording no grace timer is pending, so that none armed before
\* can stop the new recording.
C32_NoGraceTimerAcrossRecordings ==
  [][Capturing(St) = {} /\ Capturing(St') # {} =>
       \A t \in BagToSet(timers') : t.kind # "grace"]_vars

----------------------------------------------------------------------------
(* Claims about the detector's interface *)

C34_SampleBeforeTimer ==
  \A i \in DetIds :
    /\ detectors[i].isRunning
    /\ ~detectors[i].tickDue
    /\ sdHist[i].lastSample = "loud"
    /\ sdHist[i].lastLoudAt = now
    => \A t \in SilenceTimersOf(i) : t.due # now


\* C35: a detector with silenceThreshold = 0 classifies no sample as silent:
\* it arms no silence timer and never fires onSilenceDetected.
C35_ZeroThresholdNeverFires ==
  \A i \in DetIds :
    detectors[i].silenceThreshold = 0 =>
      /\ sdHist[i].lastSample # "quiet"
      /\ sdHist[i].silenceEdges = 0
      /\ sdHist[i].edgesWhileStopped = 0
      /\ SilenceTimersOf(i) = {}

\* a detector with threshold 0 has taken a sample
C35_ZeroThresholdSampled ==
  \E i \in DetIds : /\ detectors[i].silenceThreshold = 0
                    /\ detectors[i].isRunning
                    /\ sdHist[i].lastSample = "loud"


\* C36: in VoiceChatInterface a silence detector is running only while a
\* recording is active: in Idle, Processing, Speaking and Error no detector
\* reports isRunning.
C36_DetectorRunsOnlyWhileRecording ==
  voiceState \in {"idle", "processing", "speaking", "error"} =>
    \A i \in DetIds : ~detectors[i].isRunning


\* C39: every detection run of the component's detector that starts uses the
\* silence duration configured at that moment.
C39_RunUsesConfiguredDuration ==
  [][\A i \in 1..Len(detectors') :
       /\ i = silenceDetectorRef'
       /\ detectors'[i].isRunning
       /\ (i \in DetIds => ~detectors[i].isRunning)
       => detectors'[i].silenceDuration = silenceDuration']_vars


----------------------------------------------------------------------------
(* Claims about the recorder's chunks *)

\* the blob that the listeners holding these chunks build at a stop event
\* is the chunks of the recording heard, all of them and only them
WholeRecording(mr) ==
  /\ \A n \in DOMAIN mr.audioChunks : mr.audioChunks[n] = mr.heard
  /\ Len(mr.audioChunks) = mr.made

----------------------------------------------------------------------------
(* Claims about the two detectors *)

\* nothing is left to run at this instant
Quiescent ==
  /\ \A i \in DetIds : ~detectors[i].tickDue
  /\ \A t \in SilenceTimers : t.due > now

\* C37: given the same start and stop calls, samples and clock, the detector
\* of silence-detector.service.ts and the detector of src/unnamed/part_000
\* have called onSilenceDetected and onSpeechDetected equally often and
\* report the same isSilent() and hasSilenceBeenDetected(), whenever nothing
\* is left to run at the instant.
C37_DetectorsAgree ==
  Quiescent =>
    /\ sdHist[Refactored].silenceEdges = sdHist[Original].silenceEdges
    /\ sdHist[Refactored].edgesWhileStopped
         = sdHist[Original].edgesWhileStopped
    /\ sdHist[Refactored].speechEdges = sdHist[Original].speechEdges
    /\ detectors[Refactored].isSilent = detectors[Original].isSilent
    /\ detectors[Refactored].silenceDetectedFlag
         = detectors[Original].silenceDetectedFlag


----------------------------------------------------------------------------
(* Claims about the VoiceChat built on hooks *)

============================================================================
